---- MODULE Spec2Model ----
(***************************************************************************)
(* Luxury retail BI dashboard: the Streamlit page (app.py), the ingestion  *)
(* (modules/data_loader.py), the KPI engine (modules/kpi_calculator.py)    *)
(* and the alert engine (modules/alerts.py).                               *)
(*                                                                         *)
(* A DataFrame is a record [present, columns, rows, load]: `columns` is    *)
(* the set of its column names, `rows` the sequence of its rows in table   *)
(* order, `load` the identity of the load_data call that built the object  *)
(* (0 for a table built elsewhere).  Python's None is the table NoTable.   *)
(* A timestamp is a number of hours; a date is a number of days.  A float  *)
(* is an exact fraction or NaN.                                            *)
(***************************************************************************)
EXTENDS Integers, Sequences, FiniteSets, TLC

VARIABLES
    data_source,       \* app.py: the sidebar radio
    session,           \* app.py: st.session_state, the keys it holds
    failed_loads,      \* history: the load_data calls that returned errors
    loads,             \* history: the number of load_data calls so far
    loaded,            \* the value of the last load_data call
    shown,             \* app.py: what the last button press displayed
    now,               \* the wall clock, read by datetime.now()
    sales_data,        \* the sales table handed to the engines
    inventory_data,    \* the inventory table handed to the engines
    kpis,              \* the value of the last calculate_kpis call
    alerts,            \* the value of the last check_alerts call
    boutique_metrics,  \* the value of the last calculate_boutique_metrics call
    category_metrics,  \* the value of the last calculate_category_performance call
    validated,         \* the last validate_excel call: its arguments and value
    config             \* app.py: config.get('thresholds', {})

vars == <<data_source, session, failed_loads, loads, loaded, shown, now,
          sales_data, inventory_data, kpis, alerts, boutique_metrics,
          category_metrics, validated, config>>

-----------------------------------------------------------------------------
(* Bounds of the model. *)

\* The most rows a sales table has in the KPI and alert specifications.
MaxSalesRows == 2
\* The most rows an inventory table has in the stock-alert specification.
MaxStockRows == 6
\* The most rows a sales table has in the boutique-metrics specification.
MaxWindowRows == 3
\* The most rows a sales table has in the category specification.
MaxCategoryRows == 3
\* The most rows a sales table has in the revenue-drop specification.
MaxDropRows == 3
\* The most rows a sales table has in the today specification.
MaxTodayRows == 3
\* The most required columns handed to validate_excel.
MaxRequired == 3
\* The most rows a sales table has in the zero-sales specification.
MaxZeroRows == 3
\* The day the wall clock shows, counted from the day 0 of the timestamps.
Today == 400
\* The most 'Process Uploaded Data' presses in one session.
MaxLoads == 2
\* The days of sales generate_demo_data makes (the code makes 30).
DemoPeriods == 2
\* The SKUs per boutique generate_demo_data makes (the code makes 50).
DemoSkus == 1

-----------------------------------------------------------------------------
(* Time: datetime, date, timedelta. *)

\* timedelta(days=n)
timedelta(n) == n * 24

\* Timestamp.date(), Series.dt.date
DateOf(t) == t \div 24

\* datetime.hour
HourOf(t) == t % 24

\* The timestamp of day d at hour h.
At(d, h) == d * 24 + h

\* Timedelta.days: floor of the difference in days
DaysOf(delta) == delta \div 24

-----------------------------------------------------------------------------
(* Floats: an exact fraction num/den (den > 0, lowest terms), NaN, or an   *)
(* infinity.                                                               *)

RECURSIVE GCD(_, _)
GCD(a, b) == IF b = 0 THEN a ELSE GCD(b, a % b)

Abs(n) == IF n < 0 THEN -n ELSE n

NaN == [k |-> "nan", num |-> 0, den |-> 1]

Infinite == [k |-> "inf", num |-> 0, den |-> 1]

Frac(n, d) ==
    LET g == GCD(Abs(n), Abs(d))
        s == IF d < 0 THEN -1 ELSE 1
    IN  [k |-> "fin", num |-> (s * n) \div g, den |-> (s * d) \div g]

Num(n) == [k |-> "fin", num |-> n, den |-> 1]

\* np.isnan
isnan(x) == x.k = "nan"

Finite(x) == x.k = "fin"

\* x > 0 on floats: False for NaN
Positive(x) == x.k = "inf" \/ (x.k = "fin" /\ x.num > 0)

\* a < b on finite floats; False when either is NaN
Less(a, b) == a.k = "fin" /\ b.k = "fin" /\ a.num * b.den < b.num * a.den

FSub(a, b) ==
    IF a.k # "fin" \/ b.k # "fin" THEN NaN
    ELSE Frac(a.num * b.den - b.num * a.den, a.den * b.den)

FMul(a, b) ==
    IF a.k = "nan" \/ b.k = "nan" THEN NaN
    ELSE IF a.k = "inf" \/ b.k = "inf" THEN Infinite
    ELSE Frac(a.num * b.num, a.den * b.den)

\* a / b on numpy floats: 0/0 is NaN, x/0 is an infinity, neither raises
FDiv(a, b) ==
    IF a.k # "fin" \/ b.k # "fin" THEN NaN
    ELSE IF b.num = 0 THEN (IF a.num = 0 THEN NaN ELSE Infinite)
    ELSE Frac(a.num * b.den, a.den * b.num)

\* (a - b) / b * 100
PctChange(a, b) == FMul(FDiv(FSub(a, b), b), Num(100))

\* format(abs(x), '.1f') of a finite float: its number of tenths, ties to even
Tenths(x) ==
    LET n == Abs(x.num) * 10
        q == n \div x.den
        r == n % x.den
    IN  IF 2 * r > x.den \/ (2 * r = x.den /\ q % 2 = 1) THEN q + 1 ELSE q

-----------------------------------------------------------------------------
(* Sequences and sets. *)

\* The sum of a sequence of integers, by halves.
RECURSIVE SumSeq(_)
SumSeq(s) ==
    IF Len(s) = 0 THEN 0
    ELSE IF Len(s) = 1 THEN s[1]
    ELSE LET half == Len(s) \div 2
         IN  SumSeq(SubSeq(s, 1, half)) + SumSeq(SubSeq(s, half + 1, Len(s)))

\* df[mask] is SelectSeq(rows, Test): the rows that satisfy Test, in table order.

Range(s) == {s[i] : i \in 1..Len(s)}

\* The sequences over S of length at most n.
SeqUpTo(S, n) == UNION {[1..k -> S] : k \in 0..n}

\* Series.max() of integers (the set is not empty)
MaxOf(S) == CHOOSE m \in S : \A x \in S : x <= m

\* A head that does not cut.
head_all(s, n) == s

\* DataFrame.head(n)
head(s, n) == IF Len(s) <= n THEN s ELSE SubSeq(s, 1, n)

-----------------------------------------------------------------------------
(* Tables. *)

NoTable == [present |-> FALSE, columns |-> {}, rows |-> <<>>, load |-> 0]

Table(cols, rws, id) ==
    [present |-> TRUE, columns |-> cols, rows |-> rws, load |-> id]

\* load_data: the columns a sales report must have, as the list reads
sales_columns ==
    <<"Date", "Boutique_ID", "Boutique_Name", "Region", "SKU_Code",
      "Product_Category", "Brand", "Units_Sold", "Revenue_USD",
      "Transaction_ID", "Customer_Type">>

\* load_data: the columns an inventory report must have, as the list reads
inventory_columns ==
    <<"Date", "Boutique_ID", "SKU_Code", "Product_Name", "Category", "Brand",
      "Current_Stock_Units", "Min_Stock_Threshold", "Retail_Price">>

\* An error string of the ingestion: what it says.
MissingColumnsError(file_type, missing) ==
    [kind |-> "is missing columns", file |-> file_type, columns |-> missing]

LoadError(file) ==
    [kind |-> "Error loading file", file |-> file, columns |-> {}]

-----------------------------------------------------------------------------
(* data_loader.validate_excel *)

\* A validate_excel that reports the missing columns only when the table
\* has none of the required ones.
validate_excel_any(df, required_columns, file_type) ==
    LET missing_cols == Range(required_columns) \ df.columns
    IN  IF missing_cols = Range(required_columns) /\ missing_cols # {}
        THEN <<MissingColumnsError(file_type, missing_cols)>>
        ELSE <<>>

\* required_columns is a list; the joined text names the members of
\* missing_cols in the iteration order of the set, kept here as the set.
validate_excel(df, required_columns, file_type) ==
    LET missing_cols == Range(required_columns) \ df.columns
    IN  IF missing_cols # {}
        THEN <<MissingColumnsError(file_type, missing_cols)>>
        ELSE <<>>

-----------------------------------------------------------------------------
(* data_loader.load_data *)

\* An uploaded file: its name's extension, whether its reader (pd.read_csv
\* or pd.read_excel) reads it, and the table it holds.  A Date cell of the
\* file is [ok, t]: whether pd.to_datetime parses it, and to which
\* timestamp.
ReadFile(file) ==
    IF file.ext = "csv"
    THEN [raised |-> ~file.csv_ok, df |-> file.table]
    ELSE [raised |-> ~file.excel_ok, df |-> file.table]

\* pd.to_datetime(df['Date']) assigned to df['Date']: KeyError without the
\* column, a parse error on a cell it cannot parse
ConvertDate(df) ==
    IF "Date" \notin df.columns THEN [raised |-> TRUE, df |-> df]
    ELSE IF \E i \in 1..Len(df.rows) : ~df.rows[i].Date.ok
    THEN [raised |-> TRUE, df |-> df]
    ELSE [raised |-> FALSE,
          df |-> [df EXCEPT !.rows =
                    [i \in 1..Len(df.rows) |->
                        [df.rows[i] EXCEPT !.Date = df.rows[i].Date.t]]]]

\* One try block of load_data: read, validate, convert the date.  The value
\* is the table (NoTable after an exception) and the errors it appended.
LoadBlock(file, required, file_type, file_word, id) ==
    LET read == ReadFile(file)
        checked == validate_excel(read.df, required, file_type)
        conv == ConvertDate(read.df)
    IN  IF read.raised
        THEN [raised |-> TRUE, df |-> NoTable, errors |-> <<LoadError(file_word)>>]
        ELSE IF conv.raised
        THEN [raised |-> TRUE, df |-> NoTable,
              errors |-> checked \o <<LoadError(file_word)>>]
        ELSE [raised |-> FALSE, df |-> [conv.df EXCEPT !.load = id],
              errors |-> checked]

\* A load_data with one try block around both files: an exception in the
\* sales file skips the inventory file.
load_data_one_try(sales_file, inventory_file, id) ==
    LET s == LoadBlock(sales_file, sales_columns, "Sales Report", "sales", id)
        v == LoadBlock(inventory_file, inventory_columns,
                       "Inventory Report", "inventory", id)
    IN  IF s.raised
        THEN [sales_data |-> NoTable, inventory_data |-> NoTable, errors |-> s.errors]
        ELSE [sales_data |-> s.df, inventory_data |-> v.df,
              errors |-> s.errors \o v.errors]

\* id names the call: the tables it builds are new objects.
load_data(sales_file, inventory_file, id) ==
    LET s == LoadBlock(sales_file, sales_columns, "Sales Report", "sales", id)
        v == LoadBlock(inventory_file, inventory_columns,
                       "Inventory Report", "inventory", id)
    IN  [sales_data |-> s.df, inventory_data |-> v.df,
         errors |-> s.errors \o v.errors]

-----------------------------------------------------------------------------
(* Columns and groups of a table. *)

\* df[c] as a list of values
Column(rows, c) == [i \in 1..Len(rows) |-> rows[i][c]]

\* df[c].sum() of an integer column
ColSum(rows, c) == SumSeq(Column(rows, c))

\* df[c].unique(), as a set
Unique(rows, c) == Range(Column(rows, c))

\* The sum of the values of a function with a finite domain.
RECURSIVE SumFn(_)
SumFn(f) ==
    IF DOMAIN f = {} THEN 0
    ELSE LET x == CHOOSE x \in DOMAIN f : TRUE
         IN  f[x] + SumFn([y \in DOMAIN f \ {x} |-> f[y]])

\* df.groupby(key)[c].sum(): the sum of c for each value of the key column
GroupSum(rows, key, c) ==
    [g \in Unique(rows, key) |->
        ColSum(SelectSeq(rows, LAMBDA r : r[key] = g), c)]

\* Series.mean() of integers: NaN for an empty series
MeanFn(f) ==
    IF DOMAIN f = {} THEN NaN ELSE Frac(SumFn(f), Cardinality(DOMAIN f))

\* df['Date'].max(): NaT for an empty column
NaT == [nat |-> TRUE, t |-> 0]

DateMax(rows) ==
    IF rows = <<>> THEN NaT ELSE [nat |-> FALSE, t |-> MaxOf(Unique(rows, "Date"))]

\* ts - timedelta(days=n): NaT stays NaT
Minus(ts, n) == IF ts.nat THEN NaT ELSE [nat |-> FALSE, t |-> ts.t - timedelta(n)]

\* df[df['Date'].dt.date <= ts.date()]
OnDateOf_upto(rows, ts) ==
    IF ts.nat THEN <<>>
    ELSE SelectSeq(rows, LAMBDA r : DateOf(r.Date) <= DateOf(ts.t))

\* df[df['Date'].dt.date == ts.date()]: no row equals NaT
OnDateOf(rows, ts) ==
    IF ts.nat THEN <<>>
    ELSE SelectSeq(rows, LAMBDA r : DateOf(r.Date) = DateOf(ts.t))

\* df[df['Date'] > ts]
Since_after(rows, ts) ==
    IF ts.nat THEN <<>> ELSE SelectSeq(rows, LAMBDA r : r.Date > ts.t)

\* df[df['Date'] >= ts]: a comparison of timestamps, false against NaT
Since(rows, ts) ==
    IF ts.nat THEN <<>> ELSE SelectSeq(rows, LAMBDA r : r.Date >= ts.t)

-----------------------------------------------------------------------------
(* kpi_calculator.calculate_kpis *)

\* The baseline of visitors per boutique per day.
VisitorsPerBoutique == 100

\* The days of sales the turnover looks back on.
TurnoverDays == 30

\* The factor that makes 30 days of cost of goods annual.
MonthsPerYear == 12

NoKpis ==
    [status |-> "none", daily_revenue |-> Num(0), revenue_growth |-> Num(0),
     atv |-> Num(0), atv_change |-> Num(0), conversion_rate |-> Num(0),
     conversion_change |-> Num(0), inventory_turnover |-> Num(0),
     low_stock_items |-> 0, stockout_risk |-> 0]

\* The call ended in the exception exc.
KpisRaised(exc) == [NoKpis EXCEPT !.status = exc]

\* The columns calculate_kpis subscripts, on every path.
KpiSalesReads == {"Date", "Revenue_USD", "Transaction_ID", "Boutique_ID", "Units_Sold"}

KpiInventoryReads == {"Current_Stock_Units", "Unit_Cost", "Min_Stock_Threshold"}

\* len(df[c].unique()) * 100
Visitors(rows) == Cardinality(Unique(rows, "Boutique_ID")) * VisitorsPerBoutique

\* (transactions / visitors * 100) if visitors > 0 else 0
Conversion(rows) ==
    IF Visitors(rows) > 0
    THEN FMul(Frac(Cardinality(Unique(rows, "Transaction_ID")), Visitors(rows)), Num(100))
    ELSE Num(0)

\* groupby('Transaction_ID')['Revenue_USD'].sum().mean()
Atv(rows) == MeanFn(GroupSum(rows, "Transaction_ID", "Revenue_USD"))

\* (inventory['Current_Stock_Units'] * inventory['Unit_Cost']).sum()
StockValue(rows) ==
    SumSeq([i \in 1..Len(rows) |-> rows[i].Current_Stock_Units * rows[i].Unit_Cost])

\* inventory['Unit_Cost'].mean()
MeanUnitCost(rows) ==
    IF rows = <<>> THEN NaN ELSE Frac(ColSum(rows, "Unit_Cost"), Len(rows))

\* inventory[Current_Stock_Units < Min_Stock_Threshold]
LowStock_below(rows) ==
    SelectSeq(rows, LAMBDA r : r.Current_Stock_Units < r.Min_Stock_Threshold)

\* inventory[Current_Stock_Units <= Min_Stock_Threshold]
LowStock(rows) ==
    SelectSeq(rows, LAMBDA r : r.Current_Stock_Units <= r.Min_Stock_Threshold)

\* inventory[Current_Stock_Units == 0]
Stockout(rows) == SelectSeq(rows, LAMBDA r : r.Current_Stock_Units = 0)

\* A percent change whose only guard is the NaN test of the return.
Growth_unguarded(current, previous) == PctChange(current, previous)

\* ((current - previous) / previous * 100) if previous > 0 else 0
Growth(current, previous) ==
    IF Positive(previous) THEN PctChange(current, previous) ELSE Num(0)

\* The value with the guards of the code; clock is datetime.now().
KpiValue(sales, inventory, clock) ==
    LET today == [nat |-> FALSE, t |-> clock]
        first_today == OnDateOf(sales, today)
        latest_date == DateMax(sales)
        today_data ==
            IF Len(first_today) = 0 THEN OnDateOf(sales, latest_date) ELSE first_today
        yesterday_data ==
            IF Len(first_today) = 0
            THEN OnDateOf(sales, Minus(latest_date, 1))
            ELSE OnDateOf(sales, Minus(today, 1))
        daily_revenue == ColSum(today_data, "Revenue_USD")
        prev_revenue == ColSum(yesterday_data, "Revenue_USD")
        revenue_growth == Growth(Num(daily_revenue), Num(prev_revenue))
        atv == Atv(today_data)
        prev_atv == Atv(yesterday_data)
        atv_change == Growth(atv, prev_atv)
        conversion_rate == Conversion(today_data)
        prev_conversion == Conversion(yesterday_data)
        conversion_change == FSub(conversion_rate, prev_conversion)
        total_inventory_value == StockValue(inventory)
        last_30_days ==
            Since(sales, [nat |-> FALSE, t |-> clock - timedelta(TurnoverDays)])
        cogs_30_days ==
            FMul(Num(ColSum(last_30_days, "Units_Sold")), MeanUnitCost(inventory))
        annual_cogs == FMul(cogs_30_days, Num(MonthsPerYear))
        inventory_turnover ==
            IF total_inventory_value > 0
            THEN FDiv(annual_cogs, Num(total_inventory_value))
            ELSE Num(0)
    IN  [status |-> "ok",
         daily_revenue |-> Num(daily_revenue),
         revenue_growth |-> revenue_growth,
         atv |-> IF ~isnan(atv) THEN atv ELSE Num(0),
         atv_change |-> IF ~isnan(atv_change) THEN atv_change ELSE Num(0),
         conversion_rate |-> conversion_rate,
         conversion_change |-> conversion_change,
         inventory_turnover |-> inventory_turnover,
         low_stock_items |-> Len(LowStock(inventory)),
         stockout_risk |-> Len(Stockout(inventory))]

\* Subscripting None is a TypeError, a column the table lacks a KeyError;
\* nothing before the first of them has an effect.
calculate_kpis(sales_tbl, inventory_tbl, clock) ==
    IF ~sales_tbl.present \/ ~inventory_tbl.present THEN KpisRaised("TypeError")
    ELSE IF ~(KpiSalesReads \subseteq sales_tbl.columns)
            \/ ~(KpiInventoryReads \subseteq inventory_tbl.columns)
    THEN KpisRaised("KeyError")
    ELSE KpiValue(sales_tbl.rows, inventory_tbl.rows, clock)

-----------------------------------------------------------------------------
(* alerts.check_alerts *)

\* What an alert string says: the rule, and the names and number it carries.
Alert(rule, who, where_, n) == [rule |-> rule, who |-> who, at |-> where_, n |-> n]

NoAlerts == [status |-> "none", critical |-> <<>>, warning |-> <<>>]

default_thresholds ==
    [revenue_drop_pct |-> 15, sales_target_miss_pct |-> 20,
     low_stock_threshold |-> 5, conversion_drop_pct |-> 25,
     inventory_turnover_min |-> 2, shrinkage_rate_max |-> Frac(3, 2)]

\* A merge in which the defaults win key by key: {**thresholds, **defaults}.
Merge_defaults_win(defaults, given) ==
    [key \in DOMAIN defaults \cup DOMAIN given |->
        IF key \in DOMAIN defaults THEN defaults[key] ELSE given[key]]

\* {**default_thresholds, **thresholds}
Merge(defaults, given) ==
    [key \in DOMAIN defaults \cup DOMAIN given |->
        IF key \in DOMAIN given THEN given[key] ELSE defaults[key]]

\* A report of boutiques without a sale that opens two hours early.
ZeroSalesHour_noon == 14 - 2

\* The hour from which a boutique without a sale today is reported.
ZeroSalesHour == 14

\* The most stockout rows that are reported.
StockoutShown == 5

\* The days since the last restock beyond which stock is dead.
DeadStockDays == 180

\* The share of the inventory value, in percent, beyond which dead stock is
\* reported.
DeadStockPct == 10

\* The boutique names in the order groupby sorts them.
Alphabetical ==
    <<"Dubai Mall", "Hong Kong Central", "London Bond Street",
      "NYC Fifth Avenue", "Paris Champs-Elysees", "Tokyo Ginza">>

\* The members of a set of boutique names in the order `order` lists them.
InOrder(S, order) == SelectSeq(order, LAMBDA b : b \in S)

\* The sales rules.  set_order is the order in which this interpreter
\* iterates a set of boutique names.
SalesAlerts(sales, thresholds, clock, set_order) ==
    LET latest_date == DateMax(sales)
        today_data == OnDateOf(sales, latest_date)
        week_ago_data == OnDateOf(sales, Minus(latest_date, 7))
        today_revenue == ColSum(today_data, "Revenue_USD")
        week_ago_revenue == ColSum(week_ago_data, "Revenue_USD")
        revenue_change == PctChange(Num(today_revenue), Num(week_ago_revenue))
        drop ==
            IF week_ago_revenue > 0
               /\ Less(revenue_change, Num(-thresholds["revenue_drop_pct"]))
            THEN <<Alert("Revenue dropped", "", "", Tenths(revenue_change))>>
            ELSE <<>>
        boutique_revenue == GroupSum(today_data, "Boutique_Name", "Revenue_USD")
        avg_boutique_revenue == MeanFn(boutique_revenue)
        below ==
            SelectSeq(InOrder(DOMAIN boutique_revenue, Alphabetical),
                      LAMBDA b : Less(Num(boutique_revenue[b]),
                                      FMul(avg_boutique_revenue, Frac(1, 2))))
        current_hour == HourOf(clock)
        boutiques_with_sales == Unique(today_data, "Boutique_Name")
        all_boutiques == Unique(sales, "Boutique_Name")
        no_sales_boutiques == all_boutiques \ boutiques_with_sales
        zero ==
            IF current_hour >= ZeroSalesHour
            THEN InOrder(no_sales_boutiques, set_order)
            ELSE <<>>
    IN  [critical |->
            drop \o [i \in 1..Len(zero) |->
                        Alert("has ZERO transactions today", zero[i], "", 0)],
         warning |->
            [i \in 1..Len(below) |->
                Alert("revenue significantly below network average", below[i], "", 0)]]

\* inventory_data['Days_Since_Restock'] = (now - Last_Restock_Date).dt.days:
\* the column is added to the table that was passed in
WithDaysSinceRestock(tbl, clock) ==
    [present |-> tbl.present,
     columns |-> tbl.columns \cup {"Days_Since_Restock"},
     rows |-> [i \in 1..Len(tbl.rows) |->
                [tbl.rows[i] EXCEPT !.Days_Since_Restock =
                    DaysOf(clock - tbl.rows[i].Last_Restock_Date)]],
     load |-> tbl.load]

\* inventory[(Days_Since_Restock > 180) & (Current_Stock_Units > 0)]
DeadStock(rows) ==
    SelectSeq(rows, LAMBDA r : r.Days_Since_Restock > DeadStockDays
                               /\ r.Current_Stock_Units > 0)

\* The low-stock and the stockout rule.
StockAlerts(tbl) ==
    LET low_stock == LowStock(tbl.rows)
        stockout == head(Stockout(tbl.rows), StockoutShown)
    IN  [warning |->
            IF Len(low_stock) > 0
            THEN <<Alert("SKUs below minimum stock threshold", "", "", Len(low_stock))>>
            ELSE <<>>,
         critical |->
            [i \in 1..Len(stockout) |->
                Alert("STOCKOUT", stockout[i].Product_Name,
                      IF "Boutique_ID" \in tbl.columns
                      THEN stockout[i].Boutique_ID ELSE "Unknown", 0)]]

\* The dead-stock rule on a table that has Days_Since_Restock and Unit_Cost.
DeadStockAlerts(rows) ==
    LET dead_stock == DeadStock(rows)
        dead_stock_value == StockValue(dead_stock)
        total_inventory_value == StockValue(rows)
        dead_stock_pct ==
            IF total_inventory_value > 0
            THEN FMul(Frac(dead_stock_value, total_inventory_value), Num(100))
            ELSE Num(0)
    IN  IF Len(dead_stock) > 0 /\ Less(Num(DeadStockPct), dead_stock_pct)
        THEN <<Alert("Dead stock (>180 days)", "", "", Tenths(dead_stock_pct))>>
        ELSE <<>>

\* The columns the sales rules and the first two inventory rules subscript.
AlertSalesReads == {"Date", "Revenue_USD", "Boutique_Name"}

AlertInventoryReads == {"Current_Stock_Units", "Min_Stock_Threshold", "Product_Name"}

\* The value is the pair of the alerts (or the exception the call ended in)
\* and the inventory table as the call leaves it.
check_alerts(sales_tbl, inventory_tbl, given, clock, set_order) ==
    LET thresholds == Merge(default_thresholds, given)
        raised(exc, tbl) ==
            [alerts |-> [NoAlerts EXCEPT !.status = exc], inventory_data |-> tbl]
        from_sales ==
            IF Len(sales_tbl.rows) > 0
            THEN SalesAlerts(sales_tbl.rows, thresholds, clock, set_order)
            ELSE [critical |-> <<>>, warning |-> <<>>]
        from_stock == StockAlerts(inventory_tbl)
        restocked == WithDaysSinceRestock(inventory_tbl, clock)
        dated == "Last_Restock_Date" \in inventory_tbl.columns
    IN  IF ~sales_tbl.present THEN raised("TypeError", inventory_tbl)
        ELSE IF Len(sales_tbl.rows) > 0 /\ ~(AlertSalesReads \subseteq sales_tbl.columns)
        THEN raised("KeyError", inventory_tbl)
        ELSE IF ~inventory_tbl.present THEN raised("TypeError", inventory_tbl)
        ELSE IF Len(inventory_tbl.rows) = 0
        THEN [alerts |-> [status |-> "ok", critical |-> from_sales.critical,
                          warning |-> from_sales.warning],
              inventory_data |-> inventory_tbl]
        ELSE IF ~(AlertInventoryReads \subseteq inventory_tbl.columns)
        THEN raised("KeyError", inventory_tbl)
        ELSE IF ~dated
        THEN [alerts |-> [status |-> "ok",
                          critical |-> from_sales.critical \o from_stock.critical,
                          warning |-> from_sales.warning \o from_stock.warning],
              inventory_data |-> inventory_tbl]
        ELSE IF Len(DeadStock(restocked.rows)) > 0
                /\ "Unit_Cost" \notin inventory_tbl.columns
        THEN raised("KeyError", restocked)
        ELSE [alerts |-> [status |-> "ok",
                          critical |-> from_sales.critical \o from_stock.critical,
                          warning |-> from_sales.warning \o from_stock.warning
                                      \o DeadStockAlerts(restocked.rows)],
              inventory_data |-> restocked]

-----------------------------------------------------------------------------
(* kpi_calculator.calculate_boutique_metrics *)

\* The days of the window of the boutique metrics.
WindowDays == 7

\* The visitors a boutique is taken to have in the window: 100 a day.
WindowVisitors == 700

\* sort_values('Revenue', ascending=False): the order of rows of equal
\* Revenue is not specified, so every non-increasing order is a value
RECURSIVE SortedByRevenue(_)
SortedByRevenue(S) ==
    IF S = {} THEN {<<>>}
    ELSE UNION {{<<first>> \o rest : rest \in SortedByRevenue(S \ {first})} :
                    first \in {x \in S : \A y \in S : x.Revenue >= y.Revenue}}

\* sales_data[sales_data['Date'] >= (latest_date - timedelta(days=7))]
LastDays(rows) == Since(rows, Minus(DateMax(rows), WindowDays))

\* The groupby(['Boutique_Name', 'Region']).agg(...) of the window with the
\* derived columns: one row for each pair that has a row in the window.
BoutiqueGroups(rows) ==
    LET last_7_days == LastDays(rows)
        keys == {<<r.Boutique_Name, r.Region>> : r \in Range(last_7_days)}
        of(key) == SelectSeq(last_7_days,
                             LAMBDA r : r.Boutique_Name = key[1] /\ r.Region = key[2])
    IN  {[Boutique_Name |-> key[1],
          Region |-> key[2],
          Revenue |-> ColSum(of(key), "Revenue_USD"),
          Units_Sold |-> ColSum(of(key), "Units_Sold"),
          Transactions |-> Cardinality(Unique(of(key), "Transaction_ID")),
          Estimated_Visitors |-> WindowVisitors,
          Conversion_Rate |->
              FMul(Frac(Cardinality(Unique(of(key), "Transaction_ID")), WindowVisitors),
                   Num(100)),
          ATV |-> FDiv(Num(ColSum(of(key), "Revenue_USD")),
                       Num(Cardinality(Unique(of(key), "Transaction_ID"))))] :
        key \in keys}

\* The values the call can return: the groups in an order sort_values allows.
calculate_boutique_metrics(sales_tbl) == SortedByRevenue(BoutiqueGroups(sales_tbl.rows))

-----------------------------------------------------------------------------
(* kpi_calculator.calculate_category_performance *)

\* The groupby('Product_Category').agg(...) of the whole table under its
\* new column names, with Revenue_Share = Revenue / Revenue.sum() * 100: a
\* float division, NaN for 0 / 0.
CategoryGroups(rows) ==
    LET keys == {r.Product_Category : r \in Range(rows)}
        of(key) == SelectSeq(rows, LAMBDA r : r.Product_Category = key)
        total == ColSum(rows, "Revenue_USD")
    IN  {[Category |-> key,
          Revenue |-> ColSum(of(key), "Revenue_USD"),
          Units_Sold |-> ColSum(of(key), "Units_Sold"),
          Transactions |-> Cardinality(Unique(of(key), "Transaction_ID")),
          Revenue_Share |->
              FMul(FDiv(Num(ColSum(of(key), "Revenue_USD")), Num(total)), Num(100))] :
        key \in keys}

\* The values the call can return: the groups in an order sort_values allows.
calculate_category_performance(sales_tbl) ==
    SortedByRevenue(CategoryGroups(sales_tbl.rows))

-----------------------------------------------------------------------------
(* The values the specifications draw from. *)

\* generate_demo_data: the boutiques and their regions, by position
boutiques ==
    <<"Dubai Mall", "Paris Champs-Elysees", "London Bond Street",
      "NYC Fifth Avenue", "Tokyo Ginza", "Hong Kong Central">>

regions == <<"Middle East", "Europe", "Europe", "Americas", "Asia", "Asia">>

\* boutiques.index(boutique) + 1
IndexOf(boutique) == CHOOSE i \in 1..Len(boutiques) : boutiques[i] = boutique

\* f"BTQ{n:03d}"
BoutiqueId(n) == <<"BTQ001", "BTQ002", "BTQ003", "BTQ004", "BTQ005", "BTQ006">>[n]

\* A row of a sales table.  Columns the engines never read are left out.
SalesRow(date, boutique, txn, revenue, units, category) ==
    [Date |-> date, Boutique_ID |-> BoutiqueId(IndexOf(boutique)),
     Boutique_Name |-> boutique, Region |-> regions[IndexOf(boutique)],
     Product_Category |-> category, Units_Sold |-> units,
     Revenue_USD |-> revenue, Transaction_ID |-> txn]

\* A row of an inventory table, a snapshot of 08:00 of the day of the wall
\* clock.  Days_Since_Restock has a value only once check_alerts has added
\* the column.
InventoryRow(product, boutique, stock, threshold, cost, restocked) ==
    [Date |-> At(Today, 8),
     Boutique_ID |-> BoutiqueId(IndexOf(boutique)), Product_Name |-> product,
     Current_Stock_Units |-> stock, Min_Stock_Threshold |-> threshold,
     Unit_Cost |-> cost, Last_Restock_Date |-> restocked,
     Days_Since_Restock |-> 0]

\* The columns of a full sales extract and of a full inventory extract.
AllSalesColumns ==
    Range(sales_columns) \cup {"Revenue_Local_Currency", "Sales_Associate_ID", "Payment_Method"}

AllInventoryColumns ==
    Range(inventory_columns) \cup {"Max_Stock_Threshold", "Unit_Cost", "Last_Restock_Date",
                            "Supplier_Lead_Time_Days"}

\* The thresholds the configuration supplies: none, or a revenue drop of 30.
Configs == {[x \in {} |-> 0], [revenue_drop_pct |-> 30]}

\* No config.yaml: load_config returns {} and the thresholds are {}.
AppThresholds == [x \in {} |-> 0]

\* A file the uploader holds, and the empty uploader.
File(extension, readable, tbl) ==
    [uploaded |-> TRUE, ext |-> extension, csv_ok |-> readable,
     excel_ok |-> readable, table |-> tbl]

NoFile ==
    [uploaded |-> FALSE, ext |-> "csv", csv_ok |-> FALSE, excel_ok |-> FALSE,
     table |-> NoTable]

\* No load_data call yet.
NotLoaded ==
    [called |-> FALSE, sales_file |-> NoFile, inventory_file |-> NoFile,
     sales_data |-> NoTable, inventory_data |-> NoTable, errors |-> <<>>]

\* The variables a specification does not use.
IdleApp ==
    /\ data_source = "Upload Excel"
    /\ session = [keys |-> {}, sales_data |-> NoTable, inventory_data |-> NoTable]
    /\ failed_loads = {}
    /\ loads = 0
    /\ loaded = NotLoaded
    /\ shown = "nothing"

NoMetrics == [status |-> "none", rows |-> <<>>]

NoValidation ==
    [called |-> FALSE, df |-> NoTable, required_columns |-> <<>>,
     file_type |-> "", errors |-> <<>>]

IdleEngines ==
    /\ kpis = NoKpis
    /\ alerts = NoAlerts
    /\ boutique_metrics = NoMetrics
    /\ category_metrics = NoMetrics

-----------------------------------------------------------------------------
(* data_loader.generate_demo_data *)

\* The k-th number the generator seeded with 42 hands out: a fixed stream,
\* the same in every call.
Stream(k) == (k * 7919 + 104729) % 65521

\* np.random.randint(low, high) on the k-th number of the stream
randint(k, low, high) == low + (Stream(k) % (high - low))

\* np.random.choice(list) on the k-th number of the stream
choice(k, list) == list[1 + (Stream(k) % Len(list))]

categories == <<"Watches", "Jewelry", "Accessories">>

\* The numbers a sales row draws, and an inventory row.
SalesDraws == 9

InventoryDraws == 7

\* pd.date_range(end=datetime.now(), periods=n, freq='D'): the n timestamps
\* a day apart that end at the wall clock
date_range(clock, periods) == [d \in 1..periods |-> clock - timedelta(periods - d)]

\* f"TXN{date.strftime('%Y%m%d')}{i:04d}": the day of the date and i
TransactionId(date, i) == <<"TXN", DateOf(date), i>>

\* The rows of one boutique on one date, drawn from position k of the
\* stream: the number of transactions first, then each row's numbers.
DemoCell(date, b, k) ==
    LET num_transactions == randint(k, 5, 16)
    IN  [i \in 1..num_transactions |->
            LET at == k + 1 + (i - 1) * SalesDraws
            IN  [Date |-> date,
                 Boutique_ID |-> BoutiqueId(b),
                 Boutique_Name |-> boutiques[b],
                 Region |-> regions[b],
                 Product_Category |-> choice(at + 1, categories),
                 Units_Sold |-> randint(at + 3, 1, 4),
                 Revenue_USD |-> randint(at + 5, 5000, 50000),
                 Transaction_ID |-> TransactionId(date, i - 1)]]

\* The sales rows from the c-th (date, boutique) pair on, and the position
\* of the stream after them.
RECURSIVE DemoSales(_, _, _)
DemoSales(dates, c, k) ==
    IF c > Len(dates) * Len(boutiques) THEN [rows |-> <<>>, k |-> k]
    ELSE LET date == dates[1 + ((c - 1) \div Len(boutiques))]
             b == 1 + ((c - 1) % Len(boutiques))
             cell == DemoCell(date, b, k)
             rest == DemoSales(dates, c + 1, k + 1 + Len(cell) * SalesDraws)
         IN  [rows |-> cell \o rest.rows, k |-> rest.k]

\* The inventory rows, boutique by boutique, drawn from position k on.
DemoInventory(clock, k) ==
    [n \in 1..(Len(boutiques) * DemoSkus) |->
        LET b == 1 + ((n - 1) \div DemoSkus)
            i == (n - 1) % DemoSkus
            at == k + (n - 1) * InventoryDraws
        IN  [Date |-> clock,
             Boutique_ID |-> BoutiqueId(b),
             Product_Name |-> <<"Luxury Item", i>>,
             Current_Stock_Units |-> randint(at, 0, 20),
             Min_Stock_Threshold |-> 5,
             Unit_Cost |-> randint(at + 3, 2000, 20000),
             Last_Restock_Date |-> clock - timedelta(randint(at + 5, 1, 60)),
             Days_Since_Restock |-> 0]]

\* clock is datetime.now(), read for the dates of the sales and for the
\* Date and restock dates of the inventory.
generate_demo_data(clock) ==
    LET sales == DemoSales(date_range(clock, DemoPeriods), 1, 0)
    IN  [sales_data |-> Table(AllSalesColumns, sales.rows, 0),
         inventory_data |-> Table(AllInventoryColumns, DemoInventory(clock, sales.k), 0)]

-----------------------------------------------------------------------------
(* validate_excel on every table and every list of required columns. *)

ValidateColumns == {"Date", "Region", "Brand", "Unit_Cost"}

InitValidate ==
    /\ IdleApp /\ IdleEngines
    /\ now = At(Today, 10)
    /\ sales_data = NoTable /\ inventory_data = NoTable
    /\ validated \in
         {[called |-> FALSE, df |-> Table(cols, <<>>, 0), required_columns |-> req,
           file_type |-> label, errors |-> <<>>] :
            cols \in SUBSET ValidateColumns,
            req \in SeqUpTo(ValidateColumns, MaxRequired),
            label \in {"Sales Report", "Inventory Report"}}
    /\ config = AppThresholds

ValidateExcel ==
    /\ ~validated.called
    /\ validated' =
         [validated EXCEPT
            !.called = TRUE,
            !.errors = validate_excel(validated.df, validated.required_columns,
                                      validated.file_type)]
    /\ UNCHANGED <<data_source, session, failed_loads, loads, loaded, shown, now,
                   sales_data, inventory_data, kpis, alerts, boutique_metrics,
                   category_metrics, config>>

SpecValidate == InitValidate /\ [][ValidateExcel]_vars

-----------------------------------------------------------------------------
(* The KPI engine and the alert engine, each called once on tables that     *)
(* pass the validation of load_data.                                        *)

EngineBoutiques == {"Dubai Mall", "Paris Champs-Elysees"}

\* Two orders in which an interpreter may iterate a set of boutique names.
SetOrders == {Alphabetical, boutiques}

\* Sales tables: rows of today, yesterday and the day before, of two
\* boutiques, with a revenue that may be 0 and two transaction ids.
EngineSalesRows ==
    {SalesRow(date, boutique, txn, revenue, 1, "Watches") :
        date \in {At(Today, 9), At(Today - 1, 20), At(Today - 2, 9)},
        boutique \in EngineBoutiques,
        txn \in {"TXN0000", "TXN0001"},
        revenue \in {0, 100}}

EngineSalesTables ==
    {Table(AllSalesColumns, rws, 0) : rws \in SeqUpTo(EngineSalesRows, MaxSalesRows)}

\* Inventory tables beside them: a full extract, one without rows, one
\* without the optional Unit_Cost, one without the optional
\* Last_Restock_Date.  Each has the required columns.
EngineInventoryRows ==
    <<InventoryRow("Luxury Item 0", "Dubai Mall", 2, 5, 10, At(Today - 200, 9)),
      InventoryRow("Luxury Item 1", "Dubai Mall", 8, 5, 30, At(Today - 3, 9))>>

EngineInventoryTables ==
    {Table(AllInventoryColumns, EngineInventoryRows, 0),
     Table(AllInventoryColumns, <<>>, 0),
     Table(AllInventoryColumns \ {"Unit_Cost"}, EngineInventoryRows, 0),
     Table(AllInventoryColumns \ {"Last_Restock_Date"}, EngineInventoryRows, 0)}

InitEngines ==
    /\ IdleApp /\ IdleEngines
    /\ validated = NoValidation
    /\ now = At(Today, 15)
    /\ sales_data \in EngineSalesTables
    /\ inventory_data \in EngineInventoryTables
    /\ config \in Configs

\* Inventory tables of up to MaxStockRows rows of four kinds: out of stock
\* under a threshold of 5, out of stock under a threshold below 0, in stock
\* at the threshold, in stock above it.
StockRows ==
    {InventoryRow("Luxury Item 0", "Dubai Mall", 0, 5, 10, At(Today - 3, 9)),
     InventoryRow("Luxury Item 1", "Tokyo Ginza", 0, -1, 10, At(Today - 3, 9)),
     InventoryRow("Luxury Item 2", "Dubai Mall", 5, 5, 10, At(Today - 200, 9)),
     InventoryRow("Luxury Item 3", "Tokyo Ginza", 9, 5, 10, At(Today - 3, 9))}

StockTables ==
    {Table(AllInventoryColumns, rws, 0) : rws \in SeqUpTo(StockRows, MaxStockRows)}

InitStock ==
    /\ IdleApp /\ IdleEngines
    /\ validated = NoValidation
    /\ now = At(Today, 15)
    /\ sales_data =
         Table(AllSalesColumns,
               <<SalesRow(At(Today, 9), "Dubai Mall", "TXN0000", 100, 1, "Watches")>>, 0)
    /\ inventory_data \in StockTables
    /\ config \in Configs

\* Sales tables of three boutiques with rows of the day before the wall
\* clock's and of three days before it, read before, at and after 14:00.
ZeroSalesBoutiques == {"Dubai Mall", "Paris Champs-Elysees", "Tokyo Ginza"}

ZeroSalesRows ==
    {SalesRow(date, boutique, "TXN0000", 100, 1, "Watches") :
        date \in {At(Today - 1, 9), At(Today - 3, 9)},
        boutique \in ZeroSalesBoutiques}

InitZeroSales ==
    /\ IdleApp /\ IdleEngines
    /\ validated = NoValidation
    /\ now \in {At(Today, 13), At(Today, 14), At(Today, 15)}
    /\ sales_data \in
         {Table(AllSalesColumns, rws, 0) : rws \in SeqUpTo(ZeroSalesRows, MaxZeroRows)}
    /\ inventory_data = Table(AllInventoryColumns, EngineInventoryRows, 0)
    /\ config \in Configs

\* Sales tables whose rows lie 8 days, 7 days, 7 days and an hour, and 0 days
\* before a common latest timestamp; the revenue goes with the transaction.
WindowRows ==
    {SalesRow(date, boutique, txn[1], txn[2], 1, "Watches") :
        date \in {At(Today - 8, 9), At(Today - 7, 8), At(Today - 7, 9), At(Today, 9)},
        boutique \in {"Dubai Mall", "Tokyo Ginza"},
        txn \in {<<"TXN0000", 100>>, <<"TXN0001", 200>>}}

InitWindow ==
    /\ IdleApp /\ IdleEngines
    /\ validated = NoValidation
    /\ now = At(Today, 15)
    /\ sales_data \in
         {Table(AllSalesColumns, rws, 0) : rws \in SeqUpTo(WindowRows, MaxWindowRows)}
    /\ inventory_data = Table(AllInventoryColumns, EngineInventoryRows, 0)
    /\ config = AppThresholds

\* boutique_metrics = calculate_boutique_metrics(sales_data)
CalculateBoutiqueMetrics ==
    /\ boutique_metrics.status = "none"
    /\ \E value \in calculate_boutique_metrics(sales_data) :
          boutique_metrics' = [status |-> "ok", rows |-> value]
    /\ UNCHANGED <<data_source, session, failed_loads, loads, loaded, shown, now,
                   sales_data, inventory_data, kpis, alerts, category_metrics,
                   validated, config>>

\* kpis = calculate_kpis(sales_data, inventory_data)
CalculateKpis ==
    /\ kpis.status = "none"
    /\ kpis' = calculate_kpis(sales_data, inventory_data, now)
    /\ UNCHANGED <<data_source, session, failed_loads, loads, loaded, shown, now,
                   sales_data, inventory_data, alerts, boutique_metrics,
                   category_metrics, validated, config>>

\* alerts = check_alerts(sales_data, inventory_data, thresholds)
CheckAlerts ==
    /\ alerts.status = "none"
    /\ \E set_order \in SetOrders :
          LET r == check_alerts(sales_data, inventory_data, config, now, set_order)
          IN  /\ alerts' = r.alerts
              /\ inventory_data' = r.inventory_data
    /\ UNCHANGED <<data_source, session, failed_loads, loads, loaded, shown, now,
                   sales_data, kpis, boutique_metrics, category_metrics, validated,
                   config>>

\* Sales tables of three categories with revenues that may be 0, a
\* transaction having one revenue.
CategoryRows ==
    {SalesRow(At(Today, 9), "Dubai Mall", txn[1], txn[2], 1, category) :
        category \in {"Watches", "Jewelry", "Accessories"},
        txn \in {<<"TXN0000", 0>>, <<"TXN0001", 100>>, <<"TXN0002", 250>>}}

InitCategory ==
    /\ IdleApp /\ IdleEngines
    /\ validated = NoValidation
    /\ now = At(Today, 15)
    /\ sales_data \in
         {Table(AllSalesColumns, rws, 0) : rws \in SeqUpTo(CategoryRows, MaxCategoryRows)}
    /\ inventory_data = Table(AllInventoryColumns, EngineInventoryRows, 0)
    /\ config = AppThresholds

\* category_metrics = calculate_category_performance(sales_data)
CalculateCategoryPerformance ==
    /\ category_metrics.status = "none"
    /\ \E value \in calculate_category_performance(sales_data) :
          category_metrics' = [status |-> "ok", rows |-> value]
    /\ UNCHANGED <<data_source, session, failed_loads, loads, loaded, shown, now,
                   sales_data, inventory_data, kpis, alerts, boutique_metrics,
                   validated, config>>

SpecCategory == InitCategory /\ [][CalculateCategoryPerformance]_vars

\* Sales tables with rows on a latest day, 7 days before it (at another
\* hour) and 6 days before it, whose revenues put the drop against 100 at
\* 15, 16, 30 and 31 percent.
DropRows ==
    {SalesRow(At(Today - 1, 9), "Dubai Mall", "TXN0000", revenue, 1, "Watches") :
        revenue \in {69, 70, 84, 85}}
    \cup {SalesRow(At(Today - 8, 20), "Dubai Mall", "TXN0001", revenue, 1, "Watches") :
            revenue \in {0, 100}}
    \cup {SalesRow(At(Today - 7, 9), "Dubai Mall", "TXN0002", 100, 1, "Watches")}

InitDrop ==
    /\ IdleApp /\ IdleEngines
    /\ validated = NoValidation
    /\ now = At(Today, 10)
    /\ sales_data \in
         {Table(AllSalesColumns, rws, 0) : rws \in SeqUpTo(DropRows, MaxDropRows)}
    /\ inventory_data = Table(AllInventoryColumns, EngineInventoryRows, 0)
    /\ config \in Configs

\* Sales tables with rows on the day of the wall clock, one day, two days
\* and four days before it, of two boutiques, the revenue going with the
\* transaction.
TodayRowKinds ==
    {SalesRow(date, boutique, txn[1], txn[2], 1, "Watches") :
        date \in {At(Today, 9), At(Today - 1, 20), At(Today - 2, 9), At(Today - 4, 9)},
        boutique \in EngineBoutiques,
        txn \in {<<"TXN0000", 100>>, <<"TXN0001", 250>>}}

InitToday ==
    /\ IdleApp /\ IdleEngines
    /\ validated = NoValidation
    /\ now = At(Today, 15)
    /\ sales_data \in
         {Table(AllSalesColumns, rws, 0) : rws \in SeqUpTo(TodayRowKinds, MaxTodayRows)}
    /\ inventory_data = Table(AllInventoryColumns, EngineInventoryRows, 0)
    /\ config = AppThresholds

NextEngines == CalculateKpis \/ CheckAlerts

SpecEngines == InitEngines /\ [][NextEngines]_vars

SpecStock == InitStock /\ [][NextEngines]_vars

SpecZeroSales == InitZeroSales /\ [][NextEngines]_vars

SpecDrop == InitDrop /\ [][NextEngines]_vars

SpecToday == InitToday /\ [][CalculateKpis]_vars

SpecWindow == InitWindow /\ [][CalculateBoutiqueMetrics]_vars

-----------------------------------------------------------------------------
(* app.py: one session of the dashboard.  Streamlit runs the script from   *)
(* top to bottom on every interaction: the sidebar with the button         *)
(* handler, then the main dashboard.                                       *)

\* The cells of a file's Date column: text that pd.to_datetime parses to t,
\* or text it rejects.
DateText(t) == [ok |-> TRUE, t |-> t]

BadDateText == [ok |-> FALSE, t |-> 0]

\* The table a file holds: the parsed table with its Date cells as text.
AsFile(tbl) ==
    [tbl EXCEPT !.rows =
        [i \in 1..Len(tbl.rows) |->
            [tbl.rows[i] EXCEPT !.Date = DateText(tbl.rows[i].Date)]]]

UploadSalesRows ==
    <<SalesRow(At(Today, 9), "Dubai Mall", "TXN0000", 100, 1, "Watches"),
      SalesRow(At(Today - 1, 9), "Tokyo Ginza", "TXN0000", 300, 2, "Jewelry")>>

\* The files a user may upload: a table under either extension, which
\* the reader of that extension reads or not.
FilesOf(tables) ==
    {File(extension, readable, tbl) :
        extension \in {"csv", "xlsx"}, readable \in BOOLEAN, tbl \in tables}

\* The sales tables of the files: a sound one, one without the required
\* Region, one without Date, one with a Date cell that does not parse.
SalesFileTables ==
    LET sound == AsFile(Table(AllSalesColumns, UploadSalesRows, 0))
    IN  {sound,
         [sound EXCEPT !.columns = @ \ {"Region"}],
         [sound EXCEPT !.columns = @ \ {"Date"}],
         [sound EXCEPT !.rows[2].Date = BadDateText]}

UploadInventoryRows ==
    <<InventoryRow("Luxury Item 0", "Dubai Mall", 2, 5, 10, At(Today - 200, 9)),
      InventoryRow("Luxury Item 1", "Tokyo Ginza", 0, 5, 30, At(Today - 3, 9))>>

\* The inventory tables of the files: a sound full extract, one without the
\* optional Unit_Cost, one without the optional Last_Restock_Date, one
\* without the required Product_Name, one with a bad Date cell.
InventoryFileTables ==
    LET sound == AsFile(Table(AllInventoryColumns, UploadInventoryRows, 0))
    IN  {sound,
         [sound EXCEPT !.columns = @ \ {"Unit_Cost"}],
         [sound EXCEPT !.columns = @ \ {"Last_Restock_Date"}],
         [sound EXCEPT !.columns = @ \ {"Product_Name"}],
         [sound EXCEPT !.rows[1].Date = BadDateText]}

\* The files of a session: sound ones, a sales file with a bad Date cell,
\* inventory files without an optional column, one no reader reads.
SalesFiles ==
    LET sound == AsFile(Table(AllSalesColumns, UploadSalesRows, 0))
    IN  {File("csv", TRUE, sound),
         File("csv", TRUE, [sound EXCEPT !.rows[2].Date = BadDateText])}

InventoryFiles ==
    LET sound == AsFile(Table(AllInventoryColumns, UploadInventoryRows, 0))
    IN  {File("csv", TRUE, sound),
         File("xlsx", TRUE, [sound EXCEPT !.columns = @ \ {"Unit_Cost"}]),
         File("xlsx", FALSE, sound),
         File("csv", TRUE, [sound EXCEPT !.columns = @ \ {"Product_Name"}])}

AppClock == {At(Today, 10), At(Today, 15)}

NoSession == [keys |-> {}, sales_data |-> NoTable, inventory_data |-> NoTable]

\* A handler that stores the tables whatever the errors.
StoreLoaded_always(held, result) ==
    [keys |-> {"sales_data", "inventory_data"},
     sales_data |-> result.sales_data,
     inventory_data |-> result.inventory_data]

\* if errors: st.error(...) else: st.session_state[...] = ...
StoreLoaded(held, result) ==
    IF result.errors # <<>> THEN held
    ELSE [keys |-> {"sales_data", "inventory_data"},
          sales_data |-> result.sales_data,
          inventory_data |-> result.inventory_data]

\* sales_data, inventory_data of a run: generate_demo_data() under 'Demo
\* Data', the session's tables otherwise.
TablesOf(source, held, clock) ==
    IF source = "Demo Data" THEN generate_demo_data(clock)
    ELSE [sales_data |-> held.sales_data, inventory_data |-> held.inventory_data]

\* What a run leaves: the tables it took, the values of the engines that
\* ran, and the session.  An exception ends the run where it is raised.
\* The session's inventory table is the object check_alerts is handed, so
\* it is as check_alerts left it.
Outcome(source, held, tables, k, checked, metrics) ==
    IF source # "Demo Data" /\ "sales_data" \notin held.keys
    THEN [session |-> held, sales_data |-> NoTable, inventory_data |-> NoTable,
          kpis |-> NoKpis, alerts |-> NoAlerts, metrics |-> {NoMetrics}]
    ELSE IF k.status # "ok"
    THEN [session |-> held, sales_data |-> tables.sales_data,
          inventory_data |-> tables.inventory_data,
          kpis |-> k, alerts |-> NoAlerts, metrics |-> {NoMetrics}]
    ELSE [session |->
             IF source = "Demo Data" THEN held
             ELSE [held EXCEPT !.inventory_data = checked.inventory_data],
          sales_data |-> tables.sales_data,
          inventory_data |-> checked.inventory_data,
          kpis |-> k, alerts |-> checked.alerts,
          metrics |->
             IF checked.alerts.status # "ok" THEN {NoMetrics}
             ELSE {[status |-> "ok", rows |-> value] : value \in metrics}]

\* The engines in the order the main dashboard calls them.
Engines(source, held, tables, clock, given, set_order) ==
    Outcome(source, held, tables,
            calculate_kpis(tables.sales_data, tables.inventory_data, clock),
            check_alerts(tables.sales_data, tables.inventory_data, given, clock,
                         set_order),
            IF tables.sales_data = NoTable THEN {}
            ELSE calculate_boutique_metrics(tables.sales_data))

\* The main dashboard of one run, on the session `held`.
Dashboard(source, held, clock, given, set_order) ==
    Engines(source, held, TablesOf(source, held, clock), clock, given, set_order)

\* The variables as a run leaves them.
Shown(run) ==
    /\ session' = run.session
    /\ sales_data' = run.sales_data
    /\ inventory_data' = run.inventory_data
    /\ kpis' = run.kpis
    /\ alerts' = run.alerts
    /\ boutique_metrics' \in run.metrics
    /\ category_metrics' = category_metrics

\* The rest of a run after the sidebar: the dashboard on the session `held`.
Render(source, held) ==
    \E clock \in AppClock, set_order \in SetOrders :
        /\ clock >= now
        /\ now' = clock
        /\ Shown(Dashboard(source, held, clock, config, set_order))

\* load_data on every pair of files.
InitLoad ==
    /\ data_source = "Upload Excel" /\ session = NoSession
    /\ failed_loads = {} /\ loads = 0 /\ shown = "nothing"
    /\ IdleEngines
    /\ validated = NoValidation
    /\ now = At(Today, 10)
    /\ sales_data = NoTable /\ inventory_data = NoTable
    /\ loaded \in {[NotLoaded EXCEPT !.sales_file = sf, !.inventory_file = vf] :
                      sf \in FilesOf(SalesFileTables),
                      vf \in FilesOf(InventoryFileTables)}
    /\ config = AppThresholds

\* sales_data, inventory_data, errors = load_data(sales_file, inventory_file)
LoadData ==
    /\ ~loaded.called
    /\ LET result == load_data(loaded.sales_file, loaded.inventory_file, 1)
       IN  loaded' = [loaded EXCEPT !.called = TRUE,
                                    !.sales_data = result.sales_data,
                                    !.inventory_data = result.inventory_data,
                                    !.errors = result.errors]
    /\ UNCHANGED <<data_source, session, failed_loads, loads, shown, now, sales_data,
                   inventory_data, kpis, alerts, boutique_metrics,
                   category_metrics, validated, config>>

SpecLoad == InitLoad /\ [][LoadData]_vars

InitApp ==
    /\ IdleApp /\ IdleEngines
    /\ validated = NoValidation
    /\ now = At(Today, 10)
    /\ sales_data = NoTable /\ inventory_data = NoTable
    /\ config = AppThresholds

\* The data source radio is set to `source`.
SelectDataSource ==
    \E source \in {"Upload Excel", "Demo Data"} :
        /\ source # data_source
        /\ data_source' = source
        /\ shown' = "nothing"
        /\ Render(source, session)
        /\ UNCHANGED <<failed_loads, loads, loaded, validated, config>>

\* The handler on the result of load_data: the errors or the success are
\* shown, the tables stored if there is no error, and the run goes on.
Processed(sales_file, inventory_file, result) ==
    /\ loads' = loads + 1
    /\ loaded' = [called |-> TRUE, sales_file |-> sales_file,
                  inventory_file |-> inventory_file,
                  sales_data |-> result.sales_data,
                  inventory_data |-> result.inventory_data,
                  errors |-> result.errors]
    /\ failed_loads' =
          IF result.errors # <<>> THEN failed_loads \cup {loads + 1}
          ELSE failed_loads
    /\ shown' = IF result.errors # <<>> THEN "error" ELSE "success"
    /\ Render(data_source, StoreLoaded(session, result))

\* 'Process Uploaded Data' is pressed with both files uploaded.
ProcessUploadedData ==
    /\ data_source = "Upload Excel"
    /\ loads < MaxLoads
    /\ \E sales_file \in SalesFiles, inventory_file \in InventoryFiles :
          Processed(sales_file, inventory_file,
                    load_data(sales_file, inventory_file, loads + 1))
    /\ UNCHANGED <<data_source, validated, config>>

\* 'Process Uploaded Data' is pressed with a file missing.
ProcessWithoutFiles ==
    /\ data_source = "Upload Excel"
    /\ shown' = "warning"
    /\ Render(data_source, session)
    /\ UNCHANGED <<data_source, failed_loads, loads, loaded, validated, config>>

\* 'Refresh Data', or any other widget: the script runs again.
Rerun ==
    /\ shown' = "nothing"
    /\ Render(data_source, session)
    /\ UNCHANGED <<data_source, failed_loads, loads, loaded, validated, config>>

Next == SelectDataSource \/ ProcessUploadedData \/ ProcessWithoutFiles \/ Rerun

Spec == InitApp /\ [][Next]_vars

-----------------------------------------------------------------------------
(* generate_demo_data called at one wall-clock instant after another, and    *)
(* calculate_kpis on what it returned.                                       *)

\* The instants of the calls: every hour of five days.
DemoClock == {At(Today + d, h) : d \in 0..4, h \in 0..23}

InitDemo ==
    /\ IdleApp /\ IdleEngines
    /\ validated = NoValidation
    /\ now = At(Today, 0)
    /\ sales_data = NoTable /\ inventory_data = NoTable
    /\ config = AppThresholds

\* The variables as generate_demo_data's result leaves them.
Generated(demo) ==
    /\ sales_data' = demo.sales_data
    /\ inventory_data' = demo.inventory_data
    /\ kpis' = NoKpis

\* sales_data, inventory_data = generate_demo_data()
GenerateDemoData ==
    /\ \E clock \in DemoClock :
          /\ clock >= now
          /\ now' = clock
          /\ Generated(generate_demo_data(clock))
    /\ UNCHANGED <<data_source, session, failed_loads, loads, loaded, shown,
                   alerts, boutique_metrics, category_metrics, validated, config>>

\* kpis = calculate_kpis(sales_data, inventory_data) on the demo tables
CalculateDemoKpis ==
    /\ sales_data.present
    /\ CalculateKpis

NextDemo == GenerateDemoData \/ CalculateDemoKpis

SpecDemo == InitDemo /\ [][NextDemo]_vars

\* C1: validate_excel returns the empty list exactly when every required
\* column is a column of the table; otherwise it returns one error, which
\* names the label and exactly the required columns the table lacks.
C1_ValidateExact ==
    validated.called =>
        LET required == {validated.required_columns[i] :
                            i \in 1..Len(validated.required_columns)}
            lacking == {c \in required : c \notin validated.df.columns}
        IN  /\ (validated.errors = <<>>) <=> (\A c \in required : c \in validated.df.columns)
            /\ validated.errors # <<>> =>
                 /\ Len(validated.errors) = 1
                 /\ validated.errors[1].kind = "is missing columns"
                 /\ validated.errors[1].file = validated.file_type
                 /\ validated.errors[1].columns = lacking

\* C1 witness: a call on a table that has one required column and lacks two.
C1_Witness ==
    /\ validated.called
    /\ Len(validated.errors) = 1
    /\ Cardinality(validated.errors[1].columns) = 2
    /\ \E i \in 1..Len(validated.required_columns) :
          validated.required_columns[i] \in validated.df.columns

-----------------------------------------------------------------------------
(* What the claims about calculate_kpis speak of, read off the tables.      *)

SalesRowsAt(day) ==
    {i \in 1..Len(sales_data.rows) : DateOf(sales_data.rows[i].Date) = day}

\* The day calculate_kpis takes for today: the day of the wall clock when
\* the table has a row of that day, else the day of its latest row.
ResolvedToday ==
    IF SalesRowsAt(DateOf(now)) # {} THEN DateOf(now)
    ELSE DateOf(MaxOf({sales_data.rows[i].Date : i \in 1..Len(sales_data.rows)}))

YesterdayRows ==
    IF sales_data.rows = <<>> THEN {} ELSE SalesRowsAt(ResolvedToday - 1)

TodayRows ==
    IF sales_data.rows = <<>> THEN {} ELSE SalesRowsAt(ResolvedToday)

YesterdayRevenue == SumFn([i \in YesterdayRows |-> sales_data.rows[i].Revenue_USD])

Validated ==
    /\ sales_data.present /\ Range(sales_columns) \subseteq sales_data.columns
    /\ inventory_data.present
    /\ Range(inventory_columns) \subseteq inventory_data.columns

\* C2: on tables that have their required columns, calculate_kpis and
\* check_alerts both return (neither ends in an exception) and every
\* returned metric is finite.
C2_EnginesNeverRaise ==
    Validated =>
        /\ kpis.status \in {"none", "ok"}
        /\ alerts.status \in {"none", "ok"}
        /\ \A m \in {"daily_revenue", "revenue_growth", "atv", "atv_change",
                     "conversion_rate", "conversion_change", "inventory_turnover"} :
              Finite(kpis[m])

\* C3, as claimed: revenue_growth, atv_change and conversion_change are each
\* 0 when yesterday's revenue is 0, yesterday has no transaction, yesterday
\* has no boutique.
C3_AllZeroOnZeroDenominator ==
    kpis.status = "ok" =>
        /\ YesterdayRevenue = 0 => kpis.revenue_growth = Num(0)
        /\ YesterdayRows = {} => kpis.atv_change = Num(0)
        /\ YesterdayRows = {} => kpis.conversion_change = Num(0)

\* C3, amended: revenue_growth is 0 when yesterday's revenue is 0 and
\* atv_change is 0 when yesterday has no transaction; conversion_change is
\* then today's conversion_rate (yesterday's rate counts as 0), which is 0
\* only when today has no row either.
C3_ZeroDenominators ==
    kpis.status = "ok" =>
        /\ YesterdayRevenue = 0 => kpis.revenue_growth = Num(0)
        /\ YesterdayRows = {} => kpis.atv_change = Num(0)
        /\ YesterdayRows = {} =>
             /\ kpis.conversion_change = kpis.conversion_rate
             /\ (kpis.conversion_change = Num(0)) <=> (TodayRows = {})

\* C3 witness: a result for a table with rows today, some of them paid, and
\* none yesterday.
C3_Witness ==
    /\ kpis.status = "ok"
    /\ YesterdayRows = {}
    /\ \E i \in TodayRows : sales_data.rows[i].Revenue_USD > 0
    /\ kpis.conversion_change # Num(0)

-----------------------------------------------------------------------------
(* What the claims about the ingestion and the session speak of.            *)

\* The file cannot be read, or its table has no Date column, or a Date
\* cell of it does not parse.
FailsToLoad(file) ==
    \/ file.ext = "csv" /\ ~file.csv_ok
    \/ file.ext # "csv" /\ ~file.excel_ok
    \/ "Date" \notin file.table.columns
    \/ \E i \in 1..Len(file.table.rows) : ~file.table.rows[i].Date.ok

ErrorsAbout(errors, kind, file) ==
    SelectSeq(errors, LAMBDA e : e.kind = kind /\ e.file = file)

\* The table and the errors load_data owes to one file, whatever the other
\* file is: absent with one load error if the file fails to load; if not,
\* the file's columns and rows with every Date parsed, and one validation
\* error exactly when a required column is missing.
LoadedFrom(file, tbl, errors, required, file_type, file_word) ==
    LET loading == ErrorsAbout(errors, "Error loading file", file_word)
        missing == ErrorsAbout(errors, "is missing columns", file_type)
    IN  /\ FailsToLoad(file) <=> tbl = NoTable
        /\ Len(loading) = IF FailsToLoad(file) THEN 1 ELSE 0
        /\ tbl # NoTable =>
              /\ tbl.present
              /\ tbl.columns = file.table.columns
              /\ Len(tbl.rows) = Len(file.table.rows)
              /\ \A i \in 1..Len(tbl.rows) :
                    tbl.rows[i] =
                        [file.table.rows[i] EXCEPT !.Date = file.table.rows[i].Date.t]
              /\ (missing = <<>>) <=> (Range(required) \subseteq file.table.columns)
              /\ missing # <<>> =>
                    missing = <<MissingColumnsError(file_type,
                                   Range(required) \ file.table.columns)>>

\* C4: a read or date-parse failure of one file adds a load error for that
\* file and returns its table absent, and leaves the other file's table
\* loaded, validated and returned; a table is absent only with a load error
\* for its file in the errors; every error is about one of the two files.
C4_FailureIsolated ==
    loaded.called =>
        /\ LoadedFrom(loaded.sales_file, loaded.sales_data, loaded.errors,
                      sales_columns, "Sales Report", "sales")
        /\ LoadedFrom(loaded.inventory_file, loaded.inventory_data, loaded.errors,
                      inventory_columns, "Inventory Report", "inventory")
        /\ \A i \in 1..Len(loaded.errors) :
              loaded.errors[i].file \in
                 {"sales", "inventory", "Sales Report", "Inventory Report"}

\* C4 witness: a sales file that cannot be read beside an inventory file that
\* loads but lacks a required column: no sales table, the inventory table,
\* a load error for the sales file and a validation error for the inventory.
C4_Witness ==
    /\ loaded.called
    /\ ReadFile(loaded.sales_file).raised
    /\ loaded.sales_data = NoTable
    /\ loaded.inventory_data.present
    /\ "Product_Name" \notin loaded.inventory_data.columns
    /\ Len(loaded.errors) = 2
    /\ loaded.errors[1] = LoadError("sales")

\* The tables the session holds.
Held == {session.sales_data, session.inventory_data}

\* C5: a load_data call that returns errors stores neither table: the
\* session holds no table, or the two tables of one load that returned no
\* error; and the dashboard's engines are handed no table of a load that
\* returned an error.
C5_AllOrNothing ==
    /\ \/ session.keys = {} /\ Held = {NoTable}
       \/ /\ session.keys = {"sales_data", "inventory_data"}
          /\ session.sales_data.present /\ session.inventory_data.present
          /\ session.sales_data.load = session.inventory_data.load
          /\ session.sales_data.load \in (1..loads) \ failed_loads
    /\ \A tbl \in {sales_data, inventory_data} :
          tbl.present => tbl.load \notin failed_loads
    /\ loaded.called =>
          ((loaded.errors # <<>>) <=> (loads \in failed_loads))

\* C5 witness: a second load returned its sales table and an error about its
\* inventory file; the session holds the tables of the first load, and the
\* engines have run on them.
C5_Witness ==
    /\ loads = 2 /\ failed_loads = {2}
    /\ loaded.sales_data.present /\ loaded.sales_data.load = 2
    /\ loaded.inventory_data = NoTable
    /\ session.sales_data.load = 1 /\ session.inventory_data.load = 1
    /\ sales_data.load = 1
    /\ kpis.status = "ok" /\ alerts.status = "ok"

\* C6: the engines change no table they are handed: after a load that
\* returned no error the session holds, whatever was rendered since, the
\* tables with the rows and the columns that load returned.
C6_TablesAsIngested ==
    (loaded.called /\ loaded.errors = <<>>) =>
        /\ session.sales_data = loaded.sales_data
        /\ session.inventory_data = loaded.inventory_data

-----------------------------------------------------------------------------
(* What the claims about the aggregators and the alerts speak of.           *)

SalesIndex == 1..Len(sales_data.rows)

\* The latest timestamp of a sales table that has rows.
LatestDate == MaxOf({sales_data.rows[i].Date : i \in SalesIndex})

\* The rows whose Date is >= the latest Date less 7 days.
InWindow == {i \in SalesIndex : sales_data.rows[i].Date >= LatestDate - 7 * 24}

KeyOf(r) == <<r.Boutique_Name, r.Region>>

WindowOf(key) == {i \in InWindow : KeyOf(sales_data.rows[i]) = key}

\* C7: calculate_boutique_metrics aggregates exactly the rows whose Date is
\* >= the latest Date less 7 days: the result has one row for each
\* (boutique, region) with such a row, carrying the sums of Revenue_USD and
\* Units_Sold and the number of distinct Transaction_IDs over them; a row
\* dated exactly 7 days before the latest Date is counted, a row dated 8
\* days or more before it is counted nowhere, and a boutique with no row in
\* the window has no row in the result.
C7_TrailingWindow ==
    boutique_metrics.status = "ok" /\ sales_data.rows # <<>> =>
        LET result == boutique_metrics.rows
        IN  /\ {KeyOf(result[j]) : j \in 1..Len(result)}
                 = {KeyOf(sales_data.rows[i]) : i \in InWindow}
            /\ \A j, k \in 1..Len(result) :
                  KeyOf(result[j]) = KeyOf(result[k]) => j = k
            /\ \A j \in 1..Len(result) :
                  LET mine == WindowOf(KeyOf(result[j]))
                  IN  /\ result[j].Revenue
                           = SumFn([i \in mine |-> sales_data.rows[i].Revenue_USD])
                      /\ result[j].Units_Sold
                           = SumFn([i \in mine |-> sales_data.rows[i].Units_Sold])
                      /\ result[j].Transactions
                           = Cardinality({sales_data.rows[i].Transaction_ID : i \in mine})
            /\ \A i \in SalesIndex :
                  /\ sales_data.rows[i].Date = LatestDate - 7 * 24 => i \in InWindow
                  /\ sales_data.rows[i].Date <= LatestDate - 8 * 24 => i \notin InWindow

\* C7 witness: a result over a table with a row exactly 7 days before the
\* latest, counted for its boutique, and a row 8 days before the latest
\* whose boutique is not in the result.
C7_Witness ==
    /\ boutique_metrics.status = "ok"
    /\ Len(boutique_metrics.rows) = 1
    /\ \E i, j, k \in SalesIndex :
          /\ sales_data.rows[i].Date = LatestDate
          /\ sales_data.rows[j].Date = LatestDate - 7 * 24
          /\ sales_data.rows[k].Date = LatestDate - 8 * 24
          /\ sales_data.rows[k].Boutique_Name # boutique_metrics.rows[1].Boutique_Name
          /\ sales_data.rows[j].Boutique_Name = boutique_metrics.rows[1].Boutique_Name
          /\ boutique_metrics.rows[1].Revenue
               >= sales_data.rows[i].Revenue_USD + sales_data.rows[j].Revenue_USD

\* The alerts of a rule, in the order they were emitted.
AlertsOf(list, rule) == SelectSeq(list, LAMBDA a : a.rule = rule)

\* The boutiques that have a row in the sales table and none on the day of
\* its latest row.
SilentBoutiques ==
    {sales_data.rows[i].Boutique_Name : i \in SalesIndex}
        \ {sales_data.rows[i].Boutique_Name : i \in SalesRowsAt(DateOf(LatestDate))}

\* C8: check_alerts emits a 'has ZERO transactions today' alert only at an
\* hour >= 14 of the wall clock and only for a boutique that has a row in
\* the sales table and none on the day of the table's latest row; from
\* 14:00 on it emits exactly one for each such boutique, before it none.
C8_ZeroTransactions ==
    alerts.status = "ok" =>
        LET zero == AlertsOf(alerts.critical, "has ZERO transactions today")
            told == {zero[j].who : j \in 1..Len(zero)}
        IN  IF HourOf(now) >= 14 /\ sales_data.rows # <<>>
            THEN /\ told = SilentBoutiques
                 /\ Len(zero) = Cardinality(SilentBoutiques)
            ELSE zero = <<>>

\* C8 witness: alerts at 14:00 for two boutiques without a row on the day of
\* the latest row, which is not the day of the wall clock.
C8_Witness ==
    /\ alerts.status = "ok"
    /\ HourOf(now) = 14
    /\ sales_data.rows # <<>>
    /\ DateOf(LatestDate) # DateOf(now)
    /\ Len(AlertsOf(alerts.critical, "has ZERO transactions today")) = 2

InventoryIndex == 1..Len(inventory_data.rows)

\* The rows out of stock, and those among the first n rows.
OutOfStock == {i \in InventoryIndex : inventory_data.rows[i].Current_Stock_Units = 0}

OutOfStockUpTo(n) == {i \in OutOfStock : i <= n}

Min(a, b) == IF a <= b THEN a ELSE b

\* C9: with k rows out of stock, check_alerts emits min(k, 5) STOCKOUT
\* alerts: the j-th names the product and the boutique of the j-th row out
\* of stock, in table order.
C9_StockoutCap ==
    alerts.status = "ok" =>
        LET out == AlertsOf(alerts.critical, "STOCKOUT")
        IN  /\ Len(out) = Min(Cardinality(OutOfStock), 5)
            /\ \A j \in 1..Len(out) :
                  \E i \in OutOfStock :
                     /\ Cardinality(OutOfStockUpTo(i)) = j
                     /\ out[j].who = inventory_data.rows[i].Product_Name
                     /\ out[j].at = inventory_data.rows[i].Boutique_ID

\* C9 witness: six rows out of stock, of two products, and five alerts.
C9_Witness ==
    /\ alerts.status = "ok"
    /\ Cardinality(OutOfStock) = 6
    /\ Len(AlertsOf(alerts.critical, "STOCKOUT")) = 5
    /\ \E i, j \in OutOfStock :
          inventory_data.rows[i].Product_Name # inventory_data.rows[j].Product_Name

\* The rows at or under their minimum stock.
AtOrUnderMinimum ==
    {i \in InventoryIndex :
        inventory_data.rows[i].Current_Stock_Units
            <= inventory_data.rows[i].Min_Stock_Threshold}

\* C10: with n rows at or under their minimum stock, calculate_kpis returns
\* low_stock_items = n and check_alerts emits one low-stock warning carrying
\* n when n > 0 and none when n = 0; a row out of stock whose threshold is
\* >= 0 is among the n.
C10_LowStockCount ==
    LET n == Cardinality(AtOrUnderMinimum)
        low == AlertsOf(alerts.warning, "SKUs below minimum stock threshold")
    IN  /\ kpis.status = "ok" =>
              /\ kpis.low_stock_items = n
              /\ kpis.stockout_risk = Cardinality(OutOfStock)
        /\ alerts.status = "ok" =>
              IF n > 0 THEN Len(low) = 1 /\ low[1].n = n ELSE low = <<>>
        /\ \A i \in OutOfStock :
              inventory_data.rows[i].Min_Stock_Threshold >= 0 => i \in AtOrUnderMinimum

\* C10 witness: both engines have run on a table with a row in stock at its
\* threshold, a row out of stock under a threshold below 0 and a row above
\* its threshold; the count and the warning agree.
C10_Witness ==
    /\ kpis.status = "ok" /\ alerts.status = "ok"
    /\ kpis.low_stock_items = 2
    /\ kpis.stockout_risk = 2
    /\ Len(inventory_data.rows) >= 4
    /\ \E i \in AtOrUnderMinimum : inventory_data.rows[i].Current_Stock_Units > 0
    /\ Len(AlertsOf(alerts.warning, "SKUs below minimum stock threshold")) = 1

-----------------------------------------------------------------------------
(* What the claims about the demo data speak of.                            *)

\* C11: two calls of generate_demo_data, at whatever instants, return the
\* same sales table and the same inventory table: a call that follows
\* another leaves the tables as the earlier call returned them.
C11_SameAtAnyInstant ==
    [][sales_data.present =>
          /\ sales_data' = sales_data
          /\ inventory_data' = inventory_data]_vars

\* The rows of a generated sales table that share the Transaction_ID of row i.
SameTransaction(i) ==
    {j \in SalesIndex :
        sales_data.rows[j].Transaction_ID = sales_data.rows[i].Transaction_ID}

\* C15: in a sales table of generate_demo_data no two rows of different
\* boutiques or of different dates share a Transaction_ID, so the distinct
\* Transaction_IDs calculate_kpis counts for its day are as many as the
\* transactions generated for that day across the boutiques.
C15_TransactionIdsDistinct ==
    sales_data.present =>
        /\ \A i \in SalesIndex : \A j \in SameTransaction(i) :
              /\ sales_data.rows[j].Boutique_Name = sales_data.rows[i].Boutique_Name
              /\ sales_data.rows[j].Date = sales_data.rows[i].Date
        /\ kpis.status = "ok" =>
              kpis.conversion_rate =
                 Frac(Cardinality(TodayRows) * 100,
                      Cardinality({sales_data.rows[i].Boutique_ID : i \in TodayRows})
                         * VisitorsPerBoutique)

-----------------------------------------------------------------------------
(* What the claim about the categories speaks of.                           *)

\* a + b on floats
FAdd(a, b) ==
    IF a.k = "nan" \/ b.k = "nan" THEN NaN
    ELSE IF a.k = "inf" \/ b.k = "inf" THEN Infinite
    ELSE Frac(a.num * b.den + b.num * a.den, a.den * b.den)

\* The sum of the Revenue_Share of the first n rows of the result.
RECURSIVE ShareSum(_)
ShareSum(n) ==
    IF n = 0 THEN Num(0)
    ELSE FAdd(ShareSum(n - 1), category_metrics.rows[n].Revenue_Share)

\* C12: for a sales table that has rows, also one whose revenues are all 0,
\* every Revenue_Share is defined and the shares sum to 100: the Revenue of
\* the categories sums to the table's Revenue_USD and each share is its
\* category's Revenue over that total, times 100.
C12_SharesSumTo100 ==
    category_metrics.status = "ok" /\ sales_data.rows # <<>> =>
        LET result == category_metrics.rows
            total == SumSeq([i \in SalesIndex |-> sales_data.rows[i].Revenue_USD])
        IN  /\ \A n \in 1..Len(result) : Finite(result[n].Revenue_Share)
            /\ ShareSum(Len(result)) = Num(100)
            /\ SumSeq([n \in 1..Len(result) |-> result[n].Revenue]) = total
            /\ \A n \in 1..Len(result) :
                  total * result[n].Revenue_Share.num
                     = 100 * result[n].Revenue * result[n].Revenue_Share.den

-----------------------------------------------------------------------------
(* What the claim about the revenue drop speaks of.                         *)

RevenueAt(day) == SumFn([i \in SalesRowsAt(day) |-> sales_data.rows[i].Revenue_USD])

\* The threshold in force: the supplied one when the key is supplied.
DropPct ==
    IF "revenue_drop_pct" \in DOMAIN config THEN config.revenue_drop_pct ELSE 15

\* The revenue of the day 7 days before the latest is > 0 and the revenue of
\* the latest day is under it by more than DropPct percent of it.
DropExceeds ==
    /\ sales_data.rows # <<>>
    /\ RevenueAt(DateOf(LatestDate) - 7) > 0
    /\ (RevenueAt(DateOf(LatestDate) - 7) - RevenueAt(DateOf(LatestDate))) * 100
          > DropPct * RevenueAt(DateOf(LatestDate) - 7)

-----------------------------------------------------------------------------
(* What the claim about today and yesterday speaks of.                      *)

\* The conversion rate of a set of rows of the sales table: their distinct
\* transactions over 100 visitors for each of their boutiques, in percent.
ConversionOf(S) ==
    IF S = {} THEN Num(0)
    ELSE Frac(Cardinality({sales_data.rows[i].Transaction_ID : i \in S}) * 100,
              Cardinality({sales_data.rows[i].Boutique_ID : i \in S})
                 * VisitorsPerBoutique)

\* C14: calculate_kpis takes for today the day of the wall clock when the
\* table has a row of that day and else the day of the table's latest row;
\* yesterday is the rows of the day before that day, whether or not an
\* earlier day has rows; daily_revenue is the revenue of today's rows.
C14_TodayAndYesterday ==
    kpis.status = "ok" /\ sales_data.rows # <<>> =>
        LET revenue == SumFn([i \in TodayRows |-> sales_data.rows[i].Revenue_USD])
        IN  /\ kpis.daily_revenue = Num(revenue)
            /\ kpis.revenue_growth =
                  IF YesterdayRevenue > 0
                  THEN PctChange(Num(revenue), Num(YesterdayRevenue))
                  ELSE Num(0)
            /\ kpis.conversion_rate = ConversionOf(TodayRows)
            /\ kpis.conversion_change =
                  FSub(ConversionOf(TodayRows), ConversionOf(YesterdayRows))

\* C14 witness: a result for a table without a row of the wall clock's day,
\* whose latest rows are two days old and whose only other row is four days
\* old: today is the latest day, yesterday is empty, the growth is 0.
C14_Witness ==
    /\ kpis.status = "ok"
    /\ Len(sales_data.rows) = 3
    /\ SalesRowsAt(DateOf(now)) = {}
    /\ ResolvedToday = DateOf(now) - 2
    /\ Cardinality(TodayRows) = 2
    /\ SalesRowsAt(DateOf(now) - 4) # {}
    /\ YesterdayRows = {}
    /\ kpis.daily_revenue = Num(350)
    /\ kpis.revenue_growth = Num(0)

====
